---- MODULE Spec2Model ----
(***************************************************************************)
(* Snapshot diff and serial-status lifecycle of the countdown repository.  *)
(*                                                                         *)
(* Several parts of the program are modelled, each with its own            *)
(* specification over the same variables:                                  *)
(*   SpecLog       log_updates.py: delta files -> master_history.json and  *)
(*                 current_status.json                                     *)
(*   SpecCompare   compare.py: two newest Excel snapshots -> output.json,  *)
(*                 read back with analyze_status.extract_current_status    *)
(*   SpecReconcile shipment_tracker.py / backend transformers.py: the      *)
(*                 filtering steps of process_snapshot, cycle after cycle  *)
(*   SpecFilter    SpecReconcile over one serial export                    *)
(*   SpecScheduler app.py, utils/background_tasks.py, scheduled_compare.py:*)
(*                 the scheduler loops and the /api/run-compare request    *)
(*   SpecDashboard backend/app.py: process_files, the polling watcher and  *)
(*                 the readers of the dashboard cache                      *)
(*   SpecLogFaults log_updates.py, one delta at a time, with the failures  *)
(*                 its handlers provide for                                *)
(*   SpecProgress  shipment_tracker.py step 6 and                          *)
(*                 transformers.calculate_progress_metrics                 *)
(*   SpecLoops     scheduled_compare.py, app.py, main.py, backend/app.py:  *)
(*                 the loops without a bound on their passes, under weak   *)
(*                 fairness of the loop's thread                           *)
(***************************************************************************)
EXTENDS Integers, Sequences, FiniteSets, TLC

\* ------------------------------------------------------------------------
\* Bounds of the model
\* ------------------------------------------------------------------------

\* items (added + updated + removed) in one delta file
MaxItems == 2

\* delta files in the changes directory
MaxDeltas == 2

\* deltas in master_history.json
MaxHistory == 4

\* ------------------------------------------------------------------------
\* Values
\* ------------------------------------------------------------------------

\* serial numbers, in the lexicographic order of their strings
SerialOrder == <<"S1", "S2">>

Serials == {SerialOrder[i] : i \in 1..Len(SerialOrder)}

\* the status codes of config.STATUS_MAPPING
STATUS_MAPPING == {"ASH", "SHP"}

\* all sequences over S of length at most n
RECURSIVE SeqsUpTo(_, _)
SeqsUpTo(S, n) ==
  IF n = 0 THEN {<<>>}
  ELSE LET shorter == SeqsUpTo(S, n - 1)
       IN  shorter \cup {Append(q, x) : q \in {r \in shorter : Len(r) = n - 1}, x \in S}

\* ------------------------------------------------------------------------
\* log_updates.py
\* ------------------------------------------------------------------------

\* one entry of a delta's "added" / "updated" / "removed" list
DeltaItems == [serial : Serials, record : [status : STATUS_MAPPING]]

\* a delta file: three lists and, in its metadata, their lengths
DeltaFile(a, u, r) ==
  [added |-> a, updated |-> u, removed |-> r,
   metadata |-> [added_count |-> Len(a), removed_count |-> Len(r),
                 updated_count |-> Len(u)]]

\* the delta files read by log_updates, of at most MaxItems items each
DeltaFiles ==
  UNION {UNION {{DeltaFile(a, u, r) :
                   r \in SeqsUpTo(DeltaItems, MaxItems - Len(a) - Len(u))} :
                u \in SeqsUpTo(DeltaItems, MaxItems - Len(a))} :
         a \in SeqsUpTo(DeltaItems, MaxItems)}

\* the value both functions start from when the file does not exist
EmptyHistory == [metadata |-> [delta_count |-> 0, total_changes |-> 0], deltas |-> <<>>]

\* a dict with key k set to v
DictPut(d, k, v) == [x \in (DOMAIN d) \cup {k} |-> IF x = k THEN v ELSE d[x]]

\* a dict without key k
DictDel(d, k) == [x \in (DOMAIN d) \ {k} |-> d[x]]

\* the empty dict
EmptyDict == [x \in {} |-> 0]

EmptyCurrentStatus == [metadata |-> [record_count |-> 0], records |-> EmptyDict]

RECURSIVE SumChanges(_)
SumChanges(deltas) ==
  IF deltas = <<>> THEN 0
  ELSE deltas[1].metadata.added_count + deltas[1].metadata.removed_count
       + deltas[1].metadata.updated_count + SumChanges(Tail(deltas))

\* append_to_master_history keeping total_changes as a running total of the
\* added and updated counts
append_to_master_history_running_total(delta, history) ==
  LET deltas == Append(history.deltas, delta)
  IN  [metadata |-> [delta_count |-> Len(deltas),
                     total_changes |-> history.metadata.total_changes
                                         + delta.metadata.added_count
                                         + delta.metadata.updated_count],
       deltas |-> deltas]

\* append_to_master_history starting from a new history instead of the loaded one
append_to_master_history_fresh(delta, history) ==
  [metadata |-> [delta_count |-> 1, total_changes |-> SumChanges(<<delta>>)],
   deltas |-> <<delta>>]

\* log_updates.append_to_master_history: the history after appending delta
append_to_master_history(delta, history) ==
  LET deltas == Append(history.deltas, delta)
  IN  [metadata |-> [delta_count |-> Len(deltas), total_changes |-> SumChanges(deltas)],
       deltas |-> deltas]

\* the loop "records[item.serial] = item.record" over a list of items
RECURSIVE PutItems(_, _)
PutItems(records, items) ==
  IF items = <<>> THEN records
  ELSE PutItems(DictPut(records, items[1].serial, items[1].record), Tail(items))

\* the loop "if serial in records: del records[serial]" over a list of items
RECURSIVE DelItems(_, _)
DelItems(records, items) ==
  IF items = <<>> THEN records
  ELSE DelItems(DictDel(records, items[1].serial), Tail(items))

\* generate_current_status keeping record_count as a running count
generate_current_status_running_count(delta, current_status) ==
  LET added   == PutItems(current_status.records, delta.added)
      updated == PutItems(added, delta.updated)
      records == DelItems(updated, delta.removed)
  IN  [metadata |-> [record_count |-> current_status.metadata.record_count
                                        + Len(delta.added) - Len(delta.removed)],
       records |-> records]

\* log_updates.generate_current_status: the current status after applying delta
generate_current_status(delta, current_status) ==
  LET added   == PutItems(current_status.records, delta.added)
      updated == PutItems(added, delta.updated)
      records == DelItems(updated, delta.removed)
  IN  [metadata |-> [record_count |-> Cardinality(DOMAIN records)],
       records |-> records]

\* the loop of process_delta_directory over the sorted delta files: each delta
\* is appended to the history and then applied to the current status
RECURSIVE ProcessDeltas(_, _, _)
ProcessDeltas(delta_files, history, current_status) ==
  IF delta_files = <<>> THEN [history |-> history, current_status |-> current_status]
  ELSE ProcessDeltas(Tail(delta_files),
                     append_to_master_history(delta_files[1], history),
                     generate_current_status(delta_files[1], current_status))

\* ------------------------------------------------------------------------
\* compare.py
\* ------------------------------------------------------------------------

\* rows of one snapshot file
MaxRows == 2

\* snapshot files dropped in the input directory
MaxFiles == 3

\* the additional columns of a row
Attrs(d, c, h, u) == [delivery |-> d, customer_name |-> c, shipment_number |-> h, created_by |-> u]

\* a row of a snapshot, after sanitize_dataframe and fillna("")
Row(serial, status, attrs) ==
  [serial |-> serial, status |-> status, delivery |-> attrs.delivery,
   customer_name |-> attrs.customer_name, shipment_number |-> attrs.shipment_number,
   created_by |-> attrs.created_by]

\* the rows the snapshots are made of: every serial with every status, and one
\* more row whose delivery, customer, shipment and user all differ
SnapshotRows ==
  {Row(s, st, Attrs("D1", "C1", "H1", "U1")) : s \in Serials, st \in STATUS_MAPPING}
  \cup {Row("S1", st, Attrs("D2", "C2", "H2", "U2")) : st \in STATUS_MAPPING}

\* a file without the serial or the status column: compare_excel_files raises KeyError
Malformed == [readable |-> FALSE, rows |-> <<>>]

\* the snapshot files that can be dropped in the input directory
SnapshotFiles ==
  {[readable |-> TRUE, rows |-> rows] : rows \in SeqsUpTo(SnapshotRows, MaxRows)}
  \cup {Malformed}

\* the rows of df whose key is serial
RowsOf(df, serial) == SelectSeq(df, LAMBDA r : r.serial = serial)

\* the value pandas gives a column of the side a merged row does not come from
NaN == "NaN"

\* one row of the outer merge
MergedRow(serial, old, new, indicator) ==
  [serial |-> serial, status_old |-> old.status, status_new |-> new.status,
   old |-> old, new |-> new, _merge |-> indicator]

\* a row of NaN columns
NaNRow == [status |-> NaN, delivery |-> NaN, customer_name |-> NaN,
           shipment_number |-> NaN, created_by |-> NaN]

\* the rows of the merge for one key: every left row with every right row, left-major
RECURSIVE MergeKey(_, _, _)
MergeKey(serial, left, right) ==
  IF left = <<>> /\ right = <<>> THEN <<>>
  ELSE IF left = <<>> THEN [i \in 1..Len(right) |-> MergedRow(serial, NaNRow, right[i], "right_only")]
  ELSE IF right = <<>> THEN [i \in 1..Len(left) |-> MergedRow(serial, left[i], NaNRow, "left_only")]
  ELSE [i \in 1..Len(right) |-> MergedRow(serial, left[1], right[i], "both")]
       \o (IF Len(left) = 1 THEN <<>> ELSE MergeKey(serial, Tail(left), right))

\* df1.merge(df2, on="serial", how="outer", indicator=True): keys in sorted order
RECURSIVE Merge(_, _, _)
Merge(df1, df2, keys) ==
  IF keys = <<>> THEN <<>>
  ELSE MergeKey(keys[1], RowsOf(df1, keys[1]), RowsOf(df2, keys[1])) \o Merge(df1, df2, Tail(keys))

\* "" if pd.isna(v) else v
NotNa(v) == IF v = NaN THEN "" ELSE v

\* the value of an additional column of a change: the new file's, else the old file's
ColumnValue(new, old) == IF new # NaN THEN new ELSE IF old # NaN THEN old ELSE ""

\* the timestamp of the n-th change of a cycle: the clock's reading when it is
\* built; ticks[n] tells whether the reading advanced since the previous change
RECURSIVE ClockAt(_, _)
ClockAt(ticks, n) ==
  IF n = 0 THEN 0
  ELSE ClockAt(ticks, n - 1) + (IF ticks[n] THEN 1 ELSE 0)

\* the loop body recording a change also when the status did not change
CompareRow_every_row(acc, row, ticks) ==
  LET old_status == NotNa(row.status_old)
      new_status == NotNa(row.status_new)
      change_type == row._merge
      current_status ==
        IF change_type = "both" THEN new_status
        ELSE IF change_type = "right_only" THEN new_status
        ELSE IF old_status = "ASH" THEN "SHP" ELSE old_status
      change ==
        [serial |-> row.serial, from |-> old_status, to |-> current_status,
         change_type |-> change_type,
         timestamp |-> ClockAt(ticks, Len(acc.changes) + 1),
         delivery |-> ColumnValue(row.new.delivery, row.old.delivery),
         customer_name |-> ColumnValue(row.new.customer_name, row.old.customer_name),
         shipment_number |-> ColumnValue(row.new.shipment_number, row.old.shipment_number),
         created_by |-> ColumnValue(row.new.created_by, row.old.created_by)]
  IN  IF row.serial \in acc.processed_serials THEN acc
      ELSE [changes |-> Append(acc.changes, change),
            processed_serials |->
              IF current_status = "SHP" THEN acc.processed_serials \cup {row.serial}
              ELSE acc.processed_serials]

\* the loop body reporting a vanished ASH serial with its old status
CompareRow_no_implicit_ship(acc, row, ticks) ==
  LET old_status == NotNa(row.status_old)
      new_status == NotNa(row.status_new)
      change_type == row._merge
      current_status ==
        IF change_type = "both" THEN new_status
        ELSE IF change_type = "right_only" THEN new_status
        ELSE old_status
      change ==
        [serial |-> row.serial, from |-> old_status, to |-> current_status,
         change_type |-> change_type,
         timestamp |-> ClockAt(ticks, Len(acc.changes) + 1),
         delivery |-> ColumnValue(row.new.delivery, row.old.delivery),
         customer_name |-> ColumnValue(row.new.customer_name, row.old.customer_name),
         shipment_number |-> ColumnValue(row.new.shipment_number, row.old.shipment_number),
         created_by |-> ColumnValue(row.new.created_by, row.old.created_by)]
  IN  IF change_type = "both" /\ old_status = new_status THEN acc
      ELSE IF row.serial \in acc.processed_serials THEN acc
      ELSE [changes |-> Append(acc.changes, change),
            processed_serials |->
              IF current_status = "SHP" THEN acc.processed_serials \cup {row.serial}
              ELSE acc.processed_serials]

\* the body of the loop of compare_excel_files for one merged row
CompareRow(acc, row, ticks) ==
  LET old_status == NotNa(row.status_old)
      new_status == NotNa(row.status_new)
      change_type == row._merge
      current_status ==
        IF change_type = "both" THEN new_status
        ELSE IF change_type = "right_only" THEN new_status
        ELSE IF old_status = "ASH" THEN "SHP" ELSE old_status
      change ==
        [serial |-> row.serial, from |-> old_status, to |-> current_status,
         change_type |-> change_type,
         timestamp |-> ClockAt(ticks, Len(acc.changes) + 1),
         delivery |-> ColumnValue(row.new.delivery, row.old.delivery),
         customer_name |-> ColumnValue(row.new.customer_name, row.old.customer_name),
         shipment_number |-> ColumnValue(row.new.shipment_number, row.old.shipment_number),
         created_by |-> ColumnValue(row.new.created_by, row.old.created_by)]
  IN  IF change_type = "both" /\ old_status = new_status THEN acc
      ELSE IF row.serial \in acc.processed_serials THEN acc
      ELSE [changes |-> Append(acc.changes, change),
            processed_serials |->
              IF current_status = "SHP" THEN acc.processed_serials \cup {row.serial}
              ELSE acc.processed_serials]

RECURSIVE CompareRows(_, _, _)
CompareRows(acc, merged, ticks) ==
  IF merged = <<>> THEN acc
  ELSE CompareRows(CompareRow(acc, merged[1], ticks), Tail(merged), ticks)

\* a comparison that keeps one change per reading of the clock
compare_excel_files_one_per_reading(df1, df2, ticks) ==
  LET changes == CompareRows([changes |-> <<>>, processed_serials |-> {}],
                             Merge(df1, df2, SerialOrder), ticks).changes
      kept[i \in 0..Len(changes)] ==
        IF i = 0 THEN <<>>
        ELSE IF i > 1 /\ changes[i].timestamp = changes[i - 1].timestamp
             THEN kept[i - 1]
             ELSE Append(kept[i - 1], changes[i])
  IN  kept[Len(changes)]

\* compare.compare_excel_files(path1, path2): the list of changes
compare_excel_files(df1, df2, ticks) ==
  CompareRows([changes |-> <<>>, processed_serials |-> {}],
              Merge(df1, df2, SerialOrder), ticks).changes

\* the number of changes compare_excel_files returns, which no clock reading affects
ChangeCount(df1, df2) ==
  Len(compare_excel_files(df1, df2, [i \in 1..Len(Merge(df1, df2, SerialOrder)) |-> TRUE]))

\* the current_status section process_directory builds from all_changes
RECURSIVE BuildCurrentStatus(_, _)
BuildCurrentStatus(current_status, all_changes) ==
  IF all_changes = <<>> THEN current_status
  ELSE LET change == all_changes[1]
           serial == change.serial
           entry  == [status |-> change.to, delivery |-> change.delivery,
                      customer_name |-> change.customer_name,
                      shipment_number |-> change.shipment_number,
                      created_by |-> change.created_by, timestamp |-> change.timestamp]
       IN  BuildCurrentStatus(
             IF serial \notin DOMAIN current_status
                \/ change.timestamp > current_status[serial].timestamp
             THEN DictPut(current_status, serial, entry)
             ELSE current_status,
             Tail(all_changes))

\* the suffix of the snapshot files' names, the key of their section in output.json
file_type == "ZMDESNR"

\* the data process_directory writes to output.json after a comparison that
\* returned changes: the sections without their "changes" arrays
OutputData(changes) ==
  LET data == DictPut(EmptyDict, file_type, [change_count |-> Len(changes)])
  IN  IF changes = <<>> THEN data
      ELSE DictPut(DictPut(data, "summary", [total_changes |-> Len(changes)]),
                   "current_status", BuildCurrentStatus(EmptyDict, changes))

\* analyze_status.extract_changes: the changes of every section of the loaded data
extract_changes(data) ==
  IF file_type \in DOMAIN data /\ "changes" \in DOMAIN data[file_type]
  THEN data[file_type]["changes"]
  ELSE <<>>

\* analyze_status.extract_current_status
extract_current_status(data) ==
  IF "current_status" \in DOMAIN data THEN data["current_status"]
  ELSE BuildCurrentStatus(EmptyDict, extract_changes(data))

\* ------------------------------------------------------------------------
\* shipment_tracker.py and backend/data_processing/transformers.py:
\* the filtering steps of one cycle
\* ------------------------------------------------------------------------

\* rows in one serial export
MaxSerialRows == 2

\* the timestamps of serial rows are 0..MaxTime windows
MaxTime == 1

\* serial exports written to the serial numbers directory
MaxExports == 2

\* config.WINDOW_MINUTES
WINDOW_MINUTES == 60

\* timestamps, in minutes: a record made exactly one window before another sits
\* on the cutoff of filter_by_time_window
Times == {t * WINDOW_MINUTES : t \in 0..MaxTime}

Users == {"U1", "U2"}

\* a row of the serial export after sanitize_column_headers, the warehouse and
\* parent filters and ensure_timestamp_column: the frame has the serial, status,
\* timestamp and created_by columns
SerialRows == [serial : Serials, status : STATUS_MAPPING, timestamp : Times, created_by : Users]

SerialFrames == SeqsUpTo(SerialRows, MaxSerialRows)

\* the reference time extract_timestamp_from_filename finds in the file names,
\* or none
ReferenceTimes ==
  {[found |-> FALSE, time |-> 0]}
    \cup {[found |-> TRUE, time |-> t * WINDOW_MINUTES] : t \in 1..(MaxTime + 1)}

\* the statuses serial has in a frame
StatusesIn(df, serial) == {df[i].status : i \in {j \in 1..Len(df) : df[j].serial = serial}}

\* DataFrame.sort_values('timestamp', ascending=False): the sort is not a stable
\* one, rows with equal timestamps come out in any order
SortValuesDescending(df) ==
  LET n == Len(df)
      orders == {p \in [1..n -> 1..n] :
                   /\ \A i, j \in 1..n : p[i] = p[j] => i = j
                   /\ \A i \in 1..(n - 1) : df[p[i]].timestamp >= df[p[i + 1]].timestamp}
  IN  {[i \in 1..n |-> df[p[i]]] : p \in orders}

\* DataFrame.drop_duplicates(subset, keep='first')
drop_duplicates(df, subset) ==
  LET key(r) == [c \in subset |-> r[c]]
      kept[i \in 0..Len(df)] ==
        IF i = 0 THEN <<>>
        ELSE IF \E j \in 1..(i - 1) : key(df[j]) = key(df[i])
             THEN kept[i - 1]
             ELSE Append(kept[i - 1], df[i])
  IN  kept[Len(df)]

\* shipment_tracker.filter_by_time_window
filter_by_time_window(df, reference_time, window_minutes) ==
  LET cutoff_time == reference_time - window_minutes
  IN  SelectSeq(df, LAMBDA r : r.timestamp >= cutoff_time)

deduplicate_serial_status_none(df) == df

\* shipment_tracker.deduplicate_serial_status
deduplicate_serial_status(df) == drop_duplicates(df, {"serial", "status"})

process_ash_shp_statuses_keeps_ash(df) ==
  LET ash_users == {df[i].created_by : i \in {j \in 1..Len(df) : df[j].status = "ASH"}}
      serials_with_only_shp == {s \in Serials : StatusesIn(df, s) = {"SHP"}}
      kept == SelectSeq(df, LAMBDA r : ~(r.serial \in serials_with_only_shp /\ r.status = "SHP"))
  IN  [df |-> [i \in 1..Len(kept) |->
                 [c \in DOMAIN kept[i] \cup {"is_ash_user"} |->
                    IF c = "is_ash_user" THEN kept[i].created_by \in ash_users ELSE kept[i][c]]],
       ash_users |-> ash_users]

process_ash_shp_statuses_keeps_orphans(df) ==
  LET ash_users == {df[i].created_by : i \in {j \in 1..Len(df) : df[j].status = "ASH"}}
      serials_with_both == {s \in Serials : {"ASH", "SHP"} \subseteq StatusesIn(df, s)}
      kept == SelectSeq(df, LAMBDA r : ~(r.serial \in serials_with_both /\ r.status = "ASH"))
  IN  [df |-> [i \in 1..Len(kept) |->
                 [c \in DOMAIN kept[i] \cup {"is_ash_user"} |->
                    IF c = "is_ash_user" THEN kept[i].created_by \in ash_users ELSE kept[i][c]]],
       ash_users |-> ash_users]

\* shipment_tracker.process_ash_shp_statuses on a frame that has the serial,
\* status and created_by columns: the frame and the set of ASH users it returns
process_ash_shp_statuses(df) ==
  LET ash_users == {df[i].created_by : i \in {j \in 1..Len(df) : df[j].status = "ASH"}}
      serials_with_both == {s \in Serials : {"ASH", "SHP"} \subseteq StatusesIn(df, s)}
      serials_with_only_shp ==
        {s \in Serials : "SHP" \in StatusesIn(df, s) /\ "ASH" \notin StatusesIn(df, s)}
      without_orphans ==
        SelectSeq(df, LAMBDA r : ~(r.serial \in serials_with_only_shp /\ r.status = "SHP"))
      kept ==
        SelectSeq(without_orphans, LAMBDA r : ~(r.serial \in serials_with_both /\ r.status = "ASH"))
  IN  [df |-> [i \in 1..Len(kept) |->
                 [c \in DOMAIN kept[i] \cup {"is_ash_user"} |->
                    IF c = "is_ash_user" THEN kept[i].created_by \in ash_users ELSE kept[i][c]]],
       ash_users |-> ash_users]

\* the greatest number of a non-empty set
Max(S) == CHOOSE x \in S : \A y \in S : y <= x

apply_shp_ceiling_timestamp_strict(df) ==
  LET shp_times(s) == {df[i].timestamp : i \in {j \in 1..Len(df) : df[j].serial = s /\ df[j].status = "SHP"}}
  IN  SelectSeq(df, LAMBDA r : shp_times(r.serial) = {} \/ r.timestamp < Max(shp_times(r.serial)))

\* shipment_tracker.apply_shp_ceiling_timestamp on a frame that has the serial,
\* status and timestamp columns
apply_shp_ceiling_timestamp(df) ==
  LET serials_with_shp == SelectSeq(df, LAMBDA r : r.status = "SHP")
      shp_times(s) == {serials_with_shp[i].timestamp :
                         i \in {j \in 1..Len(serials_with_shp) : serials_with_shp[j].serial = s}}
      isna(s) == shp_times(s) = {}
      latest_shp(s) == Max(shp_times(s))
  IN  IF serials_with_shp # <<>>
      THEN SelectSeq(df, LAMBDA r : isna(r.serial) \/ r.timestamp <= latest_shp(r.serial))
      ELSE df

\* DataFrame.sort_values(['serial_number', 'is_shp'], ascending=[True, False]):
\* by serial, the SHP rows of a serial first, rows that compare equal in their
\* original order
RECURSIVE SortBySerialAndShp(_, _)
SortBySerialAndShp(df, serials) ==
  IF serials = <<>> THEN <<>>
  ELSE SelectSeq(df, LAMBDA r : r.serial = Head(serials) /\ r.status = "SHP")
       \o SelectSeq(df, LAMBDA r : r.serial = Head(serials) /\ r.status # "SHP")
       \o SortBySerialAndShp(df, Tail(serials))

\* transformers.preprocess_serial_data on a frame that has the serial_number
\* (here: serial) and status columns
preprocess_serial_data(combined_df) ==
  IF combined_df = <<>> THEN combined_df
  ELSE drop_duplicates(SortBySerialAndShp(combined_df, SerialOrder), {"serial"})

VARIABLES
  changes_dir,          \* the *_delta.json files of the changes directory, sorted by name
  master_history_json,  \* content of master_history.json
  current_status_json,  \* content of current_status.json
  entries,              \* the two newest snapshot files of the input directory, newest first
  file_count,           \* the number of snapshot files in the input directory
  output_json,          \* output.json: whether it exists, and its content
  last_compare,         \* the files the last process_directory compared and the changes it got
  serial_file,          \* the latest serial export: the reference time of the file names, its frame
  export_count,         \* the number of serial exports written so far
  processed,            \* process_snapshot has run on the latest serial export
  df_serial,            \* the frame process_snapshot aggregated in its last cycle
  previous_df_serial,   \* the frame it aggregated in the cycle before (kept to relate two cycles)
  ret,                  \* the last call of a filtering step on the export's frame, and its result
  program,              \* the scheduling program that was started, "" before
  pc,                   \* where the scheduler thread and the request thread are
  attempts,             \* the cycle attempts the scheduler has started
  waited,               \* the seconds the scheduler slept since its last attempt ended
  outcome,              \* how the scheduler's last attempt ended
  latest,               \* the newest ZMDESNR and VL06O file of the two directories, 0 for none
  cache,                \* dashboard_cache: the four keys process_files sets
  committed,            \* the states of the cache at the ends of the complete cycles
  cycle,                \* the calls of process_files so far
  pf_pc,                \* where process_files of backend/app.py is
  work,                 \* process_files' dashboard_data and previous_data
  pc_watch,             \* where startup_event and then the watcher thread are
  latest_files,         \* poll_for_new_files' latest_files
  last_processed,       \* poll_for_new_files' last_processed
  callback_type,        \* the file_type the running file_change_callback was called with
  last_outcome,         \* how the last callback for each file type ended
  hc,                   \* a running health_check and what it has read
  response,             \* the last answer given to a consumer
  log_pc,               \* where log_updates is in handling one delta file
  delta_index,          \* the delta file of changes_dir being handled, 0 for none
  master_history_readable, \* whether master_history.json holds complete JSON
  handled,              \* what the two calls for the last delta returned
  progress_input,       \* the serial rows and the delivery row of one delivery
  agg,                  \* process_snapshot's agg after step 6
  progress_df,          \* calculate_progress_metrics' progress_df
  track,                \* a running track_user_activity and what it has read
  user_activity_log,    \* the number of activities in services.user_activity_log
  last_activity,        \* the users lists in which a user carries a last_activity
  runner                \* a scheduling loop running without end: where it is, how its
                        \* last cycle ended and the files its poll has seen

vars == <<changes_dir, master_history_json, current_status_json,
          entries, file_count, output_json, last_compare,
          serial_file, export_count, processed, df_serial, previous_df_serial, ret,
          program, pc, attempts, waited, outcome,
          latest, cache, committed, cycle, pf_pc, work, pc_watch, latest_files,
          last_processed, callback_type, last_outcome, hc, response,
          log_pc, delta_index, master_history_readable, handled,
          progress_input, agg, progress_df,
          track, user_activity_log, last_activity, runner>>

log_vars == <<changes_dir, master_history_json, current_status_json>>

compare_vars == <<entries, file_count, output_json, last_compare>>

reconcile_vars == <<serial_file, export_count, processed, df_serial, previous_df_serial, ret>>

scheduler_vars == <<program, pc, attempts, waited, outcome>>

dashboard_vars == <<latest, cache, committed, cycle, pf_pc, work, pc_watch, latest_files,
                    last_processed, callback_type, last_outcome, hc, response>>

fault_vars == <<log_pc, delta_index, master_history_readable, handled>>

progress_vars == <<progress_input, agg, progress_df>>

tracker_vars == <<track, user_activity_log, last_activity>>

runner_vars == <<runner>>

\* the variables an action of one part leaves alone
other_than_log == <<runner_vars, tracker_vars, progress_vars, compare_vars, reconcile_vars, scheduler_vars, dashboard_vars, fault_vars>>

other_than_compare == <<runner_vars, tracker_vars, progress_vars, log_vars, reconcile_vars, scheduler_vars, dashboard_vars, fault_vars>>

other_than_reconcile == <<runner_vars, tracker_vars, progress_vars, log_vars, compare_vars, scheduler_vars, dashboard_vars, fault_vars>>

other_than_scheduler == <<runner_vars, tracker_vars, progress_vars, log_vars, reconcile_vars, dashboard_vars, fault_vars>>

other_than_dashboard == <<runner_vars, tracker_vars, progress_vars, log_vars, compare_vars, reconcile_vars, scheduler_vars, fault_vars>>

\* the variables the steps of track_user_activity and of the accessor that
\* writes into the cached dict leave alone, next to those of the dashboard
other_than_tracker ==
  <<runner_vars, progress_vars, log_vars, compare_vars, reconcile_vars, scheduler_vars, fault_vars>>

other_than_runner ==
  <<tracker_vars, progress_vars, log_vars, compare_vars, reconcile_vars, scheduler_vars,
    fault_vars>>

other_than_log_files ==
  <<runner_vars, tracker_vars, compare_vars, reconcile_vars, scheduler_vars, dashboard_vars, progress_vars>>

other_than_progress ==
  <<runner_vars, tracker_vars, log_vars, compare_vars, reconcile_vars, scheduler_vars, dashboard_vars, fault_vars>>

\* no filtering step was called on the latest export's frame
NoCall == [fn |-> "", arg |-> <<>>, out |-> <<>>]

\* a process_directory that made no comparison
\* no ZMDESNR and no VL06O file; the empty dashboard data {}
NoData == [zmdesnr |-> 0, vl06o |-> 0]

\* no diff under the key latest_diff
NoDiff == [current |-> NoData, previous |-> NoData]

\* the cache before any cycle: none of the keys is set
EmptyCache == [dashboard_data |-> NoData, latest_diff |-> NoDiff,
               previous_dashboard_data |-> NoData, last_update_time |-> 0]

NoWork == [dashboard_data |-> NoData, previous_data |-> NoData]

NoResponse == [fn |-> "", last_update |-> 0, has_data |-> FALSE,
               dashboard_data |-> NoData, latest_diff |-> NoDiff]

NoCompare == [returned |-> FALSE, path1 |-> <<>>, path2 |-> <<>>, changes |-> <<>>]

Init ==
  /\ changes_dir = <<>>
  /\ master_history_json = EmptyHistory
  /\ current_status_json = EmptyCurrentStatus
  /\ entries = <<>>
  /\ file_count = 0
  /\ output_json = [exists |-> FALSE, data |-> EmptyDict]
  /\ last_compare = NoCompare
  /\ serial_file = [reference_time |-> [found |-> FALSE, time |-> 0], df |-> <<>>]
  /\ export_count = 0
  /\ processed = FALSE
  /\ df_serial = <<>>
  /\ previous_df_serial = <<>>
  /\ ret = NoCall
  /\ program = ""
  /\ pc = [scheduler |-> "none", request |-> "none"]
  /\ attempts = 0
  /\ waited = 0
  /\ outcome = "none"
  /\ latest = NoData
  /\ cache = EmptyCache
  /\ committed = {EmptyCache}
  /\ cycle = 0
  /\ pf_pc = "idle"
  /\ work = NoWork
  /\ pc_watch = "startup"
  /\ latest_files = NoData
  /\ last_processed = NoData
  /\ callback_type = ""
  /\ last_outcome = [zmdesnr |-> "none", vl06o |-> "none"]
  /\ hc = [pc |-> "idle", last_update_time |-> 0]
  /\ response = NoResponse
  /\ log_pc = "idle"
  /\ delta_index = 0
  /\ master_history_readable = TRUE
  /\ handled = [appended |-> FALSE, applied |-> FALSE]
  /\ progress_input = [rows |-> <<>>,
                       delivery |-> [present |-> FALSE,
                                     packages |-> [isna |-> TRUE, value |-> 0],
                                     delivery_quantity |-> 0],
                       columns |-> "count"]
  /\ agg = {}
  /\ progress_df = {}
  /\ track = [pc |-> "idle", users_data |-> 0, dashboard_data |-> NoData]
  /\ user_activity_log = 0
  /\ last_activity = {}
  /\ runner = [program |-> "", pc |-> "none", outcome |-> "none", callback_type |-> "",
               latest_files |-> NoData, last_processed |-> NoData]

\* a delta file, named later than the ones present, appears in the changes directory
WriteDelta ==
  /\ Len(changes_dir) < MaxDeltas
  /\ \E d \in DeltaFiles : changes_dir' = Append(changes_dir, d)
  /\ UNCHANGED <<master_history_json, current_status_json, other_than_log>>

\* log_updates.process_delta_directory
process_delta_directory ==
  /\ changes_dir # <<>>
  /\ Len(master_history_json.deltas) + Len(changes_dir) <= MaxHistory
  /\ LET done == ProcessDeltas(changes_dir, master_history_json, current_status_json)
     IN  /\ master_history_json' = done.history
         /\ current_status_json' = done.current_status
  /\ UNCHANGED <<changes_dir, other_than_log>>

\* log_updates.main called with the path of one delta file
main_delta_path ==
  /\ Len(master_history_json.deltas) < MaxHistory
  /\ \E i \in 1..Len(changes_dir) :
       /\ master_history_json' = append_to_master_history(changes_dir[i], master_history_json)
       /\ current_status_json' = generate_current_status(changes_dir[i], current_status_json)
  /\ UNCHANGED <<changes_dir, other_than_log>>

NextLog == WriteDelta \/ process_delta_directory \/ main_delta_path

SpecLog == Init /\ [][NextLog]_vars

\* ------------------------------------------------------------------------
\* compare.py: the cycle
\* ------------------------------------------------------------------------

\* a snapshot file newer than the ones present is dropped in the input directory
DropFile ==
  /\ file_count < MaxFiles
  /\ file_count' = file_count + 1
  /\ \E f \in SnapshotFiles : entries' = IF entries = <<>> THEN <<f>> ELSE <<f, entries[1]>>
  /\ last_compare' = NoCompare
  /\ UNCHANGED <<output_json, other_than_compare>>

\* compare.process_directory with fewer than two files of the type, or with a
\* file compare_excel_files raises on: nothing is compared and nothing written
process_directory_skip ==
  /\ \/ Len(entries) < 2
     \/ \E i \in 1..Len(entries) : ~entries[i].readable
  /\ last_compare' = NoCompare
  /\ UNCHANGED <<entries, file_count, output_json, other_than_compare>>

\* compare.process_directory comparing the two newest files
process_directory ==
  /\ Len(entries) = 2
  /\ entries[1].readable /\ entries[2].readable
  /\ LET newest_file   == entries[1].rows
         previous_file == entries[2].rows
         count == ChangeCount(previous_file, newest_file)
     IN  \E ticks \in [1..count -> BOOLEAN] :
           /\ count > 0 => ticks[1]
           /\ LET changes == compare_excel_files(previous_file, newest_file, ticks)
              IN  /\ last_compare' = [returned |-> TRUE, path1 |-> previous_file,
                                      path2 |-> newest_file, changes |-> changes]
                  /\ output_json' = [exists |-> TRUE, data |-> OutputData(changes)]
  /\ UNCHANGED <<entries, file_count, other_than_compare>>

NextCompare == DropFile \/ process_directory_skip \/ process_directory

SpecCompare == Init /\ [][NextCompare]_vars

\* ------------------------------------------------------------------------
\* shipment_tracker.py and transformers.py: the cycle
\* ------------------------------------------------------------------------

\* a serial export newer than the ones present is written to the serial numbers
\* directory (next to a delivery export); the newest time in the two file names
\* is the reference time
NewExport ==
  /\ export_count < MaxExports
  /\ export_count' = export_count + 1
  /\ \E df \in SerialFrames, reference_time \in ReferenceTimes :
       serial_file' = [reference_time |-> reference_time, df |-> df]
  /\ processed' = FALSE
  /\ ret' = NoCall
  /\ UNCHANGED <<df_serial, previous_df_serial, other_than_reconcile>>

\* shipment_tracker.process_snapshot up to the aggregation: sort, deduplicate,
\* time window, ASH/SHP processing, SHP ceiling
process_snapshot ==
  /\ export_count > 0
  /\ \E sorted \in SortValuesDescending(serial_file.df) :
       LET reference_time == serial_file.reference_time
           deduped  == deduplicate_serial_status(sorted)
           windowed == IF reference_time.found
                       THEN filter_by_time_window(deduped, reference_time.time, WINDOW_MINUTES)
                       ELSE deduped
           statuses == process_ash_shp_statuses(windowed)
       IN  df_serial' = apply_shp_ceiling_timestamp(statuses.df)
  /\ previous_df_serial' = df_serial
  /\ processed' = TRUE
  /\ ret' = NoCall
  /\ UNCHANGED <<serial_file, export_count, other_than_reconcile>>

\* process_ash_shp_statuses called with the frame of the latest export
call_process_ash_shp_statuses ==
  /\ export_count > 0
  /\ ret' = [fn |-> "process_ash_shp_statuses", arg |-> serial_file.df,
             out |-> process_ash_shp_statuses(serial_file.df).df]
  /\ UNCHANGED <<serial_file, export_count, processed, df_serial, previous_df_serial,
                 other_than_reconcile>>

\* apply_shp_ceiling_timestamp called with the frame of the latest export
call_apply_shp_ceiling_timestamp ==
  /\ export_count > 0
  /\ ret' = [fn |-> "apply_shp_ceiling_timestamp", arg |-> serial_file.df,
             out |-> apply_shp_ceiling_timestamp(serial_file.df)]
  /\ UNCHANGED <<serial_file, export_count, processed, df_serial, previous_df_serial,
                 other_than_reconcile>>

\* transformers.prepare_dashboard_data calling preprocess_serial_data with the
\* frame of the latest export
call_preprocess_serial_data ==
  /\ export_count > 0
  /\ ret' = [fn |-> "preprocess_serial_data", arg |-> serial_file.df,
             out |-> preprocess_serial_data(serial_file.df)]
  /\ UNCHANGED <<serial_file, export_count, processed, df_serial, previous_df_serial,
                 other_than_reconcile>>

NextReconcile ==
  \/ NewExport
  \/ process_snapshot
  \/ call_process_ash_shp_statuses
  \/ call_apply_shp_ceiling_timestamp
  \/ call_preprocess_serial_data

SpecReconcile == Init /\ [][NextReconcile]_vars

\* the first serial export is written
FirstExport == export_count = 0 /\ NewExport

NextFilter ==
  \/ FirstExport
  \/ process_snapshot
  \/ call_process_ash_shp_statuses
  \/ call_apply_shp_ceiling_timestamp
  \/ call_preprocess_serial_data

\* the filtering steps over one serial export
SpecFilter == Init /\ [][NextFilter]_vars

\* ------------------------------------------------------------------------
\* app.py, utils/background_tasks.py, scheduled_compare.py: the schedulers
\* ------------------------------------------------------------------------

\* cycle attempts of a scheduler
MaxAttempts == 3

\* config.UPDATE_INTERVAL, in seconds
UPDATE_INTERVAL == 60

\* the programs that run cycles on a schedule: app.py (a scheduler thread next
\* to the Flask server), utils/background_tasks.py and scheduled_compare.py
Programs == {"app", "background_tasks", "scheduled_compare"}

\* a program is started; app.py serves /api/run-compare next to its scheduler
StartProgram ==
  /\ program = ""
  /\ \E p \in Programs :
       /\ program' = p
       /\ pc' = [scheduler |-> "loop", request |-> IF p = "app" THEN "idle" ELSE "none"]
  /\ UNCHANGED <<attempts, waited, outcome, compare_vars, other_than_scheduler>>

\* the first two snapshot files are dropped in the input directory
DropFirstFiles == file_count < 2 /\ DropFile

\* what a call of compare.process_directory does to output.json
process_directory_call ==
  IF Len(entries) < 2 \/ \E i \in 1..Len(entries) : ~entries[i].readable
  THEN /\ last_compare' = NoCompare
       /\ UNCHANGED output_json
  ELSE LET newest_file   == entries[1].rows
           previous_file == entries[2].rows
           count == ChangeCount(previous_file, newest_file)
       IN  \E ticks \in [1..count -> BOOLEAN] :
             /\ count > 0 => ticks[1]
             /\ LET changes == compare_excel_files(previous_file, newest_file, ticks)
                IN  /\ last_compare' = [returned |-> TRUE, path1 |-> previous_file,
                                        path2 |-> newest_file, changes |-> changes]
                    /\ output_json' = [exists |-> TRUE, data |-> OutputData(changes)]

\* app.run_scheduled_compare / scheduled_compare.scheduled_execution: the loop
\* enters process_directory
scheduler_begin ==
  /\ program \in {"app", "scheduled_compare"}
  /\ pc.scheduler = "loop"
  /\ attempts < MaxAttempts
  /\ attempts' = attempts + 1
  /\ pc' = [pc EXCEPT !.scheduler = "cycle"]
  /\ UNCHANGED <<program, waited, outcome, compare_vars, other_than_scheduler>>

\* the scheduler's process_directory returns, or raises and the loop's except
\* clause catches it
scheduler_end ==
  /\ pc.scheduler = "cycle"
  /\ \/ /\ process_directory_call
        /\ outcome' = IF Len(entries) < 2 THEN "skipped" ELSE "completed"
     \/ /\ outcome' = "error"
        /\ UNCHANGED <<output_json, last_compare>>
  /\ pc' = [pc EXCEPT !.scheduler = "sleep"]
  /\ waited' = 0
  /\ UNCHANGED <<program, attempts, entries, file_count, other_than_scheduler>>

\* time.sleep(config.UPDATE_INTERVAL) at the end of the loop body
scheduler_sleep ==
  /\ pc.scheduler = "sleep"
  /\ pc' = [pc EXCEPT !.scheduler = "loop"]
  /\ waited' = waited + UPDATE_INTERVAL
  /\ UNCHANGED <<program, attempts, outcome, compare_vars, other_than_scheduler>>

\* utils.background_tasks.run_scheduled_compare: one pass of the loop body up to
\* the sleep; with fewer than two Excel files it continues with the next pass
background_tasks_attempt ==
  /\ program = "background_tasks"
  /\ pc.scheduler = "loop"
  /\ attempts < MaxAttempts
  /\ attempts' = attempts + 1
  /\ waited' = 0
  /\ IF file_count < 2
     THEN /\ outcome' = "skipped"
          /\ pc' = pc
     ELSE /\ outcome' \in {"completed", "error"}
          /\ pc' = [pc EXCEPT !.scheduler = "sleep"]
  /\ UNCHANGED <<program, compare_vars, other_than_scheduler>>

\* app.run_compare / routes.misc_routes.run_compare: a request for
\* /api/run-compare enters process_directory
run_compare_begin ==
  /\ program = "app"
  /\ pc.request = "idle"
  /\ pc' = [pc EXCEPT !.request = "cycle"]
  /\ UNCHANGED <<program, attempts, waited, outcome, compare_vars, other_than_scheduler>>

\* the request's process_directory returns or raises, and the request is answered
run_compare_end ==
  /\ pc.request = "cycle"
  /\ \/ process_directory_call
     \/ UNCHANGED <<output_json, last_compare>>
  /\ pc' = [pc EXCEPT !.request = "idle"]
  /\ UNCHANGED <<program, attempts, waited, outcome, entries, file_count, other_than_scheduler>>

NextScheduler ==
  \/ StartProgram
  \/ DropFirstFiles
  \/ scheduler_begin
  \/ scheduler_end
  \/ scheduler_sleep
  \/ background_tasks_attempt
  \/ run_compare_begin
  \/ run_compare_end

SpecScheduler == Init /\ [][NextScheduler]_vars

\* ------------------------------------------------------------------------
\* log_updates.py with the failures its handlers provide for
\* ------------------------------------------------------------------------

\* deltas appended to one history
MaxAppends == 2

\* process_delta_directory's loop body, or main with a path: one delta file is
\* taken up
handle_delta ==
  /\ log_pc = "idle"
  /\ Len(master_history_json.deltas) < MaxAppends
  /\ \E i \in 1..Len(changes_dir) : delta_index' = i
  /\ log_pc' = "append"
  /\ handled' = [appended |-> FALSE, applied |-> FALSE]
  /\ UNCHANGED <<log_vars, master_history_readable, other_than_log_files>>

\* append_to_master_history(delta_path, master_history_path): the delta cannot
\* be loaded and None is returned; or the existing history is loaded, or a new
\* one is taken where loading fails, and the file is rewritten with the delta
\* appended; or the process ends while the file, opened with 'w', is written
call_append_to_master_history ==
  /\ log_pc = "append"
  /\ \/ /\ log_pc' = "status"
        /\ UNCHANGED <<master_history_json, master_history_readable, handled, delta_index>>
     \/ /\ \E loaded \in {b \in BOOLEAN : b => master_history_readable} :
             master_history_json' =
               append_to_master_history(changes_dir[delta_index],
                 IF loaded THEN master_history_json ELSE EmptyHistory)
        /\ master_history_readable' = TRUE
        /\ handled' = [handled EXCEPT !.appended = TRUE]
        /\ log_pc' = "status"
        /\ UNCHANGED delta_index
     \/ /\ master_history_json' = EmptyHistory
        /\ master_history_readable' = FALSE
        /\ log_pc' = "idle"
        /\ delta_index' = 0
        /\ UNCHANGED handled
  /\ UNCHANGED <<changes_dir, current_status_json, other_than_log_files>>

\* generate_current_status(delta_path, current_status_path): the delta cannot
\* be loaded and None is returned; or the call raises (a delta without one of
\* its lists, a failed write) and the run ends; or the existing status is
\* loaded, or a new one is taken where loading fails, and the file is rewritten
call_generate_current_status ==
  /\ log_pc = "status"
  /\ \/ UNCHANGED <<current_status_json, handled>>
     \/ /\ \E loaded \in BOOLEAN :
             current_status_json' =
               generate_current_status(changes_dir[delta_index],
                 IF loaded THEN current_status_json ELSE EmptyCurrentStatus)
        /\ handled' = [handled EXCEPT !.applied = TRUE]
  /\ log_pc' = "idle"
  /\ delta_index' = 0
  /\ UNCHANGED <<changes_dir, master_history_json, master_history_readable,
                 other_than_log_files>>

\* a delta file appears in the changes directory while none is handled
WriteDeltaIdle == log_pc = "idle" /\ WriteDelta

NextLogFaults ==
  \/ WriteDeltaIdle
  \/ handle_delta
  \/ call_append_to_master_history
  \/ call_generate_current_status

SpecLogFaults == Init /\ [][NextLogFaults]_vars

\* ------------------------------------------------------------------------
\* backend/app.py, backend/storage/cache.py, backend/data_processing/watchers.py
\* ------------------------------------------------------------------------

\* calls of process_files
MaxCycles == 3

\* files dropped in one directory
MaxFileId == 2

FileTypes == {"zmdesnr", "vl06o"}

\* a newer file appears in the ZMDESNR or the VL06O directory
NewFile ==
  \E t \in FileTypes :
    /\ latest[t] < MaxFileId
    /\ latest' = [latest EXCEPT ![t] = @ + 1]
    /\ UNCHANGED <<cache, committed, cycle, pf_pc, work, pc_watch, latest_files,
                   last_processed, callback_type, last_outcome, hc, response,
                   other_than_dashboard>>

\* parquet_manager.diff_dashboard_data: what changed from previous to current
diff_dashboard_data(current_data, previous_data) ==
  [current |-> current_data, previous |-> previous_data]

\* DashboardCache.set: one key is set under the cache's lock
set(key, value) == cache' = [cache EXCEPT ![key] = value]

\* the dict prepare_dashboard_data builds in the n-th call of process_files,
\* with the users list it builds for it: id tells the dict from every other
\* dict with the same content, users names the list under its key users
NewDict(files, n) ==
  [zmdesnr |-> files.zmdesnr, vl06o |-> files.vl06o, id |-> n, users |-> n]

\* two names refer to one dict
SameDict(a, b) == "id" \in DOMAIN a /\ "id" \in DOMAIN b /\ a.id = b.id

\* what the name ref refers to after the dict d was changed in place to new
Mutated(ref, d, new) == IF SameDict(ref, d) THEN new ELSE ref

\* process_files is entered for a callback of file type t ("" at startup): it
\* reads the latest files and returns on an empty frame, fails with an
\* exception that its except clause logs, or goes on to update the cache
process_files_begin(t) ==
  /\ cycle < MaxCycles
  /\ cycle' = cycle + 1
  /\ \/ /\ pf_pc' = "idle"
        /\ work' = NoWork
        /\ callback_type' = ""
        /\ last_outcome' = IF t = "" THEN last_outcome
                           ELSE [last_outcome EXCEPT ![t] = "failed"]
     \/ /\ latest.zmdesnr > 0 /\ latest.vl06o > 0
        /\ work' = [dashboard_data |-> NewDict(latest, cycle + 1),
                    previous_data |-> cache.previous_dashboard_data]
        /\ pf_pc' = IF cache.previous_dashboard_data # NoData
                    THEN "set_latest_diff" ELSE "set_dashboard_data"
        /\ callback_type' = t
        /\ UNCHANGED last_outcome

\* process_files: dashboard_cache.set('latest_diff', diff)
process_files_set_latest_diff ==
  /\ pf_pc = "set_latest_diff"
  /\ set("latest_diff", diff_dashboard_data(work.dashboard_data, work.previous_data))
  /\ pf_pc' = "set_dashboard_data"
  /\ UNCHANGED <<latest, committed, cycle, work, pc_watch, latest_files, last_processed,
                 callback_type, last_outcome, hc, response, other_than_dashboard>>

\* process_files: dashboard_cache.set_dashboard_data(dashboard_data)
process_files_set_dashboard_data ==
  /\ pf_pc = "set_dashboard_data"
  /\ set("dashboard_data", work.dashboard_data)
  /\ pf_pc' = "set_previous_dashboard_data"
  /\ UNCHANGED <<latest, committed, cycle, work, pc_watch, latest_files, last_processed,
                 callback_type, last_outcome, hc, response, other_than_dashboard>>

\* process_files: dashboard_cache.set('previous_dashboard_data', dashboard_data)
process_files_set_previous_dashboard_data ==
  /\ pf_pc = "set_previous_dashboard_data"
  /\ set("previous_dashboard_data", work.dashboard_data)
  /\ pf_pc' = "set_last_update_time"
  /\ UNCHANGED <<latest, committed, cycle, work, pc_watch, latest_files, last_processed,
                 callback_type, last_outcome, hc, response, other_than_dashboard>>

\* process_files: dashboard_cache.set('last_update_time', now), the Parquet
\* files are saved and process_files returns
process_files_set_last_update_time ==
  /\ pf_pc = "set_last_update_time"
  /\ set("last_update_time", cycle)
  /\ committed' = committed \cup {cache'}
  /\ pf_pc' = "idle"
  /\ work' = NoWork
  /\ callback_type' = ""
  /\ last_outcome' = IF callback_type = "" THEN last_outcome
                     ELSE [last_outcome EXCEPT ![callback_type] = "updated"]
  /\ UNCHANGED <<latest, cycle, pc_watch, latest_files, last_processed, hc, response,
                 other_than_dashboard>>

\* startup_event: process_files runs once before the server serves requests
startup_event ==
  /\ pc_watch = "startup"
  /\ process_files_begin("")
  /\ pc_watch' = "starting"
  /\ UNCHANGED <<latest, cache, committed, latest_files, last_processed, hc, response,
                 other_than_dashboard>>

\* startup_event: the watcher thread is started and the server begins to serve
start_file_watcher ==
  /\ pc_watch = "starting"
  /\ pf_pc = "idle"
  /\ pc_watch' = "poll"
  /\ UNCHANGED <<latest, cache, committed, cycle, pf_pc, work, latest_files,
                 last_processed, callback_type, last_outcome, hc, response,
                 other_than_dashboard>>

\* poll_for_new_files: get_latest_files and the branch for a new ZMDESNR file
poll_zmdesnr ==
  /\ pc_watch = "poll"
  /\ latest_files' = latest
  /\ pc_watch' = "vl06o"
  /\ IF latest.zmdesnr # 0 /\ latest.zmdesnr # last_processed.zmdesnr
     THEN /\ last_processed' = [last_processed EXCEPT !.zmdesnr = latest.zmdesnr]
          /\ process_files_begin("zmdesnr")
     ELSE UNCHANGED <<last_processed, cycle, pf_pc, work, callback_type, last_outcome>>
  /\ UNCHANGED <<latest, cache, committed, hc, response, other_than_dashboard>>

\* poll_for_new_files: the branch for a new VL06O file
poll_vl06o ==
  /\ pc_watch = "vl06o"
  /\ pf_pc = "idle"
  /\ latest_files' = NoData
  /\ pc_watch' = "sleep"
  /\ IF latest_files.vl06o # 0 /\ latest_files.vl06o # last_processed.vl06o
     THEN /\ last_processed' = [last_processed EXCEPT !.vl06o = latest_files.vl06o]
          /\ process_files_begin("vl06o")
     ELSE UNCHANGED <<last_processed, cycle, pf_pc, work, callback_type, last_outcome>>
  /\ UNCHANGED <<latest, cache, committed, hc, response, other_than_dashboard>>

\* poll_for_new_files: time.sleep(interval)
poll_sleep ==
  /\ pc_watch = "sleep"
  /\ pf_pc = "idle"
  /\ pc_watch' = "poll"
  /\ UNCHANGED <<latest, cache, committed, cycle, pf_pc, work, latest_files,
                 last_processed, callback_type, last_outcome, hc, response,
                 other_than_dashboard>>

\* requests are served once startup_event has returned; the handlers are
\* coroutines that never await while they use the cache, so that none starts
\* while track_user_activity runs
Serving == pc_watch \notin {"startup", "starting"} /\ track.pc = "idle"

\* health_check: dashboard_cache.get('last_update_time')
health_check_begin ==
  /\ Serving
  /\ hc.pc = "idle"
  /\ hc' = [pc |-> "read", last_update_time |-> cache.last_update_time]
  /\ response' = NoResponse
  /\ UNCHANGED <<latest, cache, committed, cycle, pf_pc, work, pc_watch, latest_files,
                 last_processed, callback_type, last_outcome, other_than_dashboard>>

\* health_check: dashboard_cache.get_dashboard_data() and the answer
health_check_end ==
  /\ hc.pc = "read"
  /\ response' = [NoResponse EXCEPT !.fn = "health_check",
                                    !.last_update = hc.last_update_time,
                                    !.has_data = cache.dashboard_data # NoData]
  /\ hc' = [pc |-> "idle", last_update_time |-> 0]
  /\ UNCHANGED <<latest, cache, committed, cycle, pf_pc, work, pc_watch, latest_files,
                 last_processed, callback_type, last_outcome, other_than_dashboard>>

\* data["timestamp"] = now, written into the dict that data names
Stamped(data, now) ==
  [k \in DOMAIN data \cup {"timestamp"} |-> IF k = "timestamp" THEN now ELSE data[k]]

\* services.get_dashboard_data: DashboardCache.get hands out the cached dict
\* itself, the timestamp is written into it, where process_files put the one
\* dict under the keys dashboard_data and previous_dashboard_data and reads the
\* latter back as previous_data in its next call, and the dict is answered
get_dashboard_data ==
  /\ Serving
  /\ hc.pc = "idle"
  /\ IF cache.dashboard_data = NoData
     THEN /\ response' = [NoResponse EXCEPT !.fn = "get_dashboard_data"]
          /\ UNCHANGED <<cache, work>>
     ELSE LET data == Stamped(cache.dashboard_data, cycle)
              d    == cache.dashboard_data
          IN  /\ cache' = [cache EXCEPT
                             !.dashboard_data = data,
                             !.previous_dashboard_data = Mutated(@, d, data)]
              /\ work' = [work EXCEPT
                            !.dashboard_data = Mutated(@, d, data),
                            !.previous_data = Mutated(@, d, data)]
              /\ response' = [NoResponse EXCEPT !.fn = "get_dashboard_data",
                                                !.has_data = TRUE,
                                                !.dashboard_data = data]
  /\ UNCHANGED <<latest, committed, cycle, pf_pc, pc_watch, latest_files,
                 last_processed, callback_type, last_outcome, hc, tracker_vars,
                 other_than_tracker>>

\* the accessors that read one section of the cached dashboard data
SectionReaders == {"get_user_activity", "get_delivery_progress", "get_scan_times"}

\* services.get_user_activity, get_delivery_progress, get_scan_times:
\* DashboardCache.get_section_data and a filtered, sanitized copy of the section
get_section_data ==
  /\ Serving
  /\ hc.pc = "idle"
  /\ \E fn \in SectionReaders :
       response' = [NoResponse EXCEPT !.fn = fn,
                                      !.has_data = cache.dashboard_data # NoData,
                                      !.dashboard_data = cache.dashboard_data]
  /\ UNCHANGED <<latest, cache, committed, cycle, pf_pc, work, pc_watch, latest_files,
                 last_processed, callback_type, last_outcome, hc, other_than_dashboard>>

\* services.get_real_time_updates: the cached diff
get_real_time_updates ==
  /\ Serving
  /\ hc.pc = "idle"
  /\ response' = [NoResponse EXCEPT !.fn = "get_real_time_updates",
                                    !.latest_diff = cache.latest_diff]
  /\ UNCHANGED <<latest, cache, committed, cycle, pf_pc, work, pc_watch, latest_files,
                 last_processed, callback_type, last_outcome, hc, other_than_dashboard>>

\* calls of track_user_activity
MaxTracks == 1

\* services.track_user_activity up to its call of set_section_data: the
\* activity is logged, the users list of the cached dict is read and the user,
\* where the list has one with that id, is given a last_activity
track_user_activity ==
  /\ Serving
  /\ hc.pc = "idle"
  /\ user_activity_log < MaxTracks
  /\ user_activity_log' = user_activity_log + 1
  /\ IF cache.dashboard_data = NoData
     THEN UNCHANGED <<track, last_activity>>
     ELSE /\ track' = [pc |-> "set_section_data",
                       users_data |-> cache.dashboard_data.users,
                       dashboard_data |-> NoData]
          /\ \E found \in BOOLEAN :
               last_activity' = IF found
                                THEN last_activity \cup {cache.dashboard_data.users}
                                ELSE last_activity
  /\ UNCHANGED <<dashboard_vars, other_than_tracker>>

\* DashboardCache.set_section_data: the cached dict is read and the users list
\* is put under its key users, in the dict itself
set_section_data ==
  /\ track.pc = "set_section_data"
  /\ LET d    == cache.dashboard_data
         data == [d EXCEPT !.users = track.users_data]
     IN  /\ track' = [track EXCEPT !.pc = "set_dashboard_data", !.dashboard_data = data]
         /\ cache' = [cache EXCEPT
                        !.dashboard_data = data,
                        !.previous_dashboard_data = Mutated(@, d, data)]
         /\ work' = [work EXCEPT
                       !.dashboard_data = Mutated(@, d, data),
                       !.previous_data = Mutated(@, d, data)]
  /\ UNCHANGED <<latest, committed, cycle, pf_pc, pc_watch, latest_files, last_processed,
                 callback_type, last_outcome, hc, response, user_activity_log,
                 last_activity, other_than_tracker>>

\* DashboardCache.set_section_data: set_dashboard_data with the dict it read,
\* and track_user_activity returns
set_section_data_set_dashboard_data ==
  /\ track.pc = "set_dashboard_data"
  /\ set("dashboard_data", track.dashboard_data)
  /\ track' = [pc |-> "idle", users_data |-> 0, dashboard_data |-> NoData]
  /\ UNCHANGED <<latest, committed, cycle, pf_pc, work, pc_watch, latest_files,
                 last_processed, callback_type, last_outcome, hc, response,
                 user_activity_log, last_activity, other_than_tracker>>

NextDashboard ==
  \/ NewFile
  \/ startup_event
  \/ start_file_watcher
  \/ poll_zmdesnr
  \/ poll_vl06o
  \/ poll_sleep
  \/ process_files_set_latest_diff
  \/ process_files_set_dashboard_data
  \/ process_files_set_previous_dashboard_data
  \/ process_files_set_last_update_time
  \/ health_check_begin
  \/ health_check_end
  \/ get_dashboard_data
  \/ get_section_data
  \/ get_real_time_updates
  \/ track_user_activity
  \/ set_section_data
  \/ set_section_data_set_dashboard_data

SpecDashboard == Init /\ [][NextDashboard]_vars

\* ------------------------------------------------------------------------
\* shipment_tracker.py step 6 and transformers.calculate_progress_metrics:
\* the progress of the (user, delivery) groups of one delivery
\* ------------------------------------------------------------------------

\* serial rows of the delivery
MaxProgressRows == 2

\* the quantity of a serial row and the delivery quantity
MaxQty == 2

\* the number of packages of the delivery
MaxPackages == 2

\* a status code that config.STATUS_MAPPING does not map: its status_text is NaN
UnmappedStatus == "OTH"

\* a row of df_serial for the delivery
ProgressRows ==
  [created_by : Users, status : STATUS_MAPPING \cup {UnmappedStatus}, qty : 0..MaxQty]

\* an empty cell of the column 'Number of packages'
NaNPackages == [isna |-> TRUE, value |-> 0]

\* the delivery is not in the VL06O export
NoDelivery == [present |-> FALSE, packages |-> NaNPackages, delivery_quantity |-> 0]

\* the delivery's row of the VL06O export
DeliveryInfos ==
  {NoDelivery}
  \cup {[present |-> TRUE, packages |-> p, delivery_quantity |-> q] :
          p \in {NaNPackages} \cup {[isna |-> FALSE, value |-> n] : n \in 0..MaxPackages},
          q \in 0..MaxQty}

\* the columns found in the exports: all four of qty, material, delivery
\* quantity and material ("detailed"), not all four but qty ("qty"), or not qty
ColumnSets == {"detailed", "qty", "count"}

NoProgressInput == [rows |-> <<>>, delivery |-> NoDelivery, columns |-> "count"]

ProgressInputs ==
  [rows : SeqsUpTo(ProgressRows, MaxProgressRows) \ {<<>>},
   delivery : DeliveryInfos, columns : ColumnSets]

\* the statuses counted as scanned
IsScanned(r) == r.status \in STATUS_MAPPING

\* the sum of the column qty
RECURSIVE SumQty(_)
SumQty(rows) == IF rows = <<>> THEN 0 ELSE rows[1].qty + SumQty(Tail(rows))

\* (n / d * 100).round(2), in hundredths of a percent
Percentage(n, d) == (20000 * n + d) \div (2 * d)

\* min(100, x) on hundredths of a percent
Min100(x) == IF x < 10000 THEN x ELSE 10000

\* the all_shipped_mask left out: the progress stays what it was
AllShippedOverride_none(assigned_count, shipped_count, progress) == progress

\* all_shipped_mask: a group with shipped and without picked serials is at 100
AllShippedOverride(assigned_count, shipped_count, progress) ==
  IF shipped_count > 0 /\ assigned_count = 0 THEN 10000 ELSE progress

\* whether the loops of step 6 set scanned_exceeds_expected for the delivery
ScannedExceedsExpected(in) ==
  LET packages == in.delivery.packages
      delivery_count == IF packages.isna THEN 0 ELSE packages.value
  IN  IF in.columns = "detailed"
      THEN /\ in.delivery.present
           /\ SumQty(in.rows) > in.delivery.delivery_quantity
           /\ in.delivery.delivery_quantity > 0
      ELSE Len(in.rows) > delivery_count /\ delivery_count > 0

\* the row of agg for the group of user u, as process_snapshot leaves it after
\* step 6: the column scanned_exceeds_expected is dropped
GroupProgress(in, u) ==
  LET mine == SelectSeq(in.rows, LAMBDA r : r.created_by = u)
      assigned_count == Len(SelectSeq(mine, LAMBDA r : r.status = "ASH"))
      shipped_count == Len(SelectSeq(mine, LAMBDA r : r.status = "SHP"))
      packages == in.delivery.packages
      mask == ~packages.isna
      all_materials_scanned ==
        /\ in.columns = "detailed"
        /\ in.delivery.present
        /\ SumQty(in.rows) >= in.delivery.delivery_quantity
        /\ in.delivery.delivery_quantity > 0
      scanned_packages ==
        IF all_materials_scanned /\ mask THEN packages.value
        ELSE assigned_count + shipped_count
      exceeds_mask == ScannedExceedsExpected(in) /\ mask
      normal ==
        IF mask /\ ~exceeds_mask /\ packages.value > 0
        THEN Percentage(scanned_packages, packages.value) ELSE 0
      equal ==
        IF mask /\ scanned_packages = packages.value /\ packages.value > 0
        THEN 10000 ELSE normal
      scanned_rows == SelectSeq(in.rows, IsScanned)
      total == IF in.columns = "count" THEN Len(in.rows) ELSE SumQty(in.rows)
      part == IF in.columns = "count" THEN Len(scanned_rows) ELSE SumQty(scanned_rows)
      exceeded ==
        IF exceeds_mask /\ total > 0 THEN Min100(Percentage(part, total)) ELSE equal
  IN  [user |-> u, delivery |-> "D1",
       assigned_to_shipper_count |-> assigned_count, shipped_count |-> shipped_count,
       delivery_total_packages |-> packages, scanned_packages |-> scanned_packages,
       progress_percentage |-> AllShippedOverride(assigned_count, shipped_count, exceeded)]

\* the users with a row in the frame
UsersOf(rows) == {rows[i].created_by : i \in 1..Len(rows)}

\* transformers.calculate_progress_metrics on the inner merge of the serial rows
\* with the delivery's row: the row of progress_df for the group of user u
ProgressMetrics(in, u) ==
  LET scanned_count == Len(SelectSeq(in.rows, LAMBDA r : r.created_by = u))
      number_of_packages == in.delivery.packages
  IN  [delivery |-> "D1", created_by |-> u, scanned_count |-> scanned_count,
       number_of_packages |-> number_of_packages,
       progress_percentage |->
         IF number_of_packages.isna THEN [kind |-> "nan", hundredths |-> 0]
         ELSE IF number_of_packages.value = 0 THEN [kind |-> "inf", hundredths |-> 0]
         ELSE [kind |-> "number",
               hundredths |-> Percentage(scanned_count, number_of_packages.value)]]

\* a serial export and a delivery export with rows for the delivery appear
NewDeliveryExport ==
  /\ progress_input = NoProgressInput
  /\ \E in \in ProgressInputs : progress_input' = in
  /\ agg' = {}
  /\ progress_df' = {}
  /\ UNCHANGED other_than_progress

\* shipment_tracker.process_snapshot, steps 4 to 6
process_snapshot_progress ==
  /\ progress_input # NoProgressInput
  /\ agg' = {GroupProgress(progress_input, u) : u \in UsersOf(progress_input.rows)}
  /\ UNCHANGED <<progress_input, progress_df, other_than_progress>>

\* transformers.calculate_progress_metrics
calculate_progress_metrics ==
  /\ progress_input # NoProgressInput
  /\ progress_df' = IF progress_input.delivery.present
                    THEN {ProgressMetrics(progress_input, u) :
                            u \in UsersOf(progress_input.rows)}
                    ELSE {}
  /\ UNCHANGED <<progress_input, agg, other_than_progress>>

NextProgress == NewDeliveryExport \/ process_snapshot_progress \/ calculate_progress_metrics

SpecProgress == Init /\ [][NextProgress]_vars

\* ------------------------------------------------------------------------
\* scheduled_compare.py, app.py, main.py, backend/app.py: the loops, run
\* without a bound on their passes
\* ------------------------------------------------------------------------

\* the loops that run cycles again and again: scheduled_compare.scheduled_execution,
\* app.run_scheduled_compare, and watchers.poll_for_new_files called by main.py
\* with file_update_handler and by backend/app.py with file_change_callback
Loops == {"scheduled_execution", "run_scheduled_compare", "main", "backend"}

CompareLoops == {"scheduled_execution", "run_scheduled_compare"}

PollLoops == {"main", "backend"}

\* one of the loops is started
start_loop ==
  /\ runner.program = ""
  /\ \E p \in Loops : runner' = [runner EXCEPT !.program = p, !.pc = "loop"]
  /\ UNCHANGED <<dashboard_vars, other_than_runner>>

\* a newer file appears in one of the two directories a poll looks at
new_file_for_poll ==
  /\ runner.program \in PollLoops
  /\ NewFile
  /\ UNCHANGED runner

\* run_comparison / the body of run_scheduled_compare's loop: process_directory
\* is called
compare_cycle_begin ==
  /\ runner.program \in CompareLoops
  /\ runner.pc = "loop"
  /\ runner' = [runner EXCEPT !.pc = "cycle", !.outcome = "running"]
  /\ UNCHANGED <<dashboard_vars, other_than_runner>>

\* process_directory returns, or raises and the except clause around the call
\* logs the exception; the loop goes on to its sleep
compare_cycle_end ==
  /\ runner.program \in CompareLoops
  /\ runner.pc = "cycle"
  /\ \E o \in {"completed", "raised"} :
       runner' = [runner EXCEPT !.pc = "sleep", !.outcome = o]
  /\ UNCHANGED <<dashboard_vars, other_than_runner>>

\* time.sleep returns and the loop starts its next pass
loop_sleep ==
  /\ runner.pc = "sleep"
  /\ runner' = [runner EXCEPT !.pc = "loop"]
  /\ UNCHANGED <<dashboard_vars, other_than_runner>>

\* poll_for_new_files: get_latest_files at the top of a pass
poll_get_latest_files ==
  /\ runner.program \in PollLoops
  /\ runner.pc = "loop"
  /\ runner' = [runner EXCEPT !.pc = "zmdesnr", !.latest_files = latest]
  /\ UNCHANGED <<dashboard_vars, other_than_runner>>

\* poll_for_new_files: the branch for a new file of type t; the file is
\* recorded as processed and the callback is called
poll_branch(t, next) ==
  /\ runner.program \in PollLoops
  /\ runner.pc = t
  /\ IF runner.latest_files[t] # 0 /\ runner.latest_files[t] # runner.last_processed[t]
     THEN runner' = [runner EXCEPT !.pc = "callback", !.callback_type = t,
                                   !.outcome = "running",
                                   !.last_processed[t] = runner.latest_files[t]]
     ELSE runner' = [runner EXCEPT !.pc = next]
  /\ UNCHANGED <<dashboard_vars, other_than_runner>>

poll_branch_zmdesnr == poll_branch("zmdesnr", "vl06o")

poll_branch_vl06o == poll_branch("vl06o", "sleep")

\* the callback's process_files returns or raises. process_files of
\* backend/app.py catches the exception itself and the callback returns;
\* file_update_handler of main.py lets it pass, poll_for_new_files catches
\* KeyboardInterrupt only, and the exception ends the loop
callback_end ==
  /\ runner.pc = "callback"
  /\ \E o \in {"completed", "raised"} :
       runner' = [runner EXCEPT
                    !.outcome = o,
                    !.callback_type = "",
                    !.pc = IF o = "raised" /\ runner.program = "main" THEN "ended"
                           ELSE IF runner.callback_type = "zmdesnr" THEN "vl06o"
                           ELSE "sleep"]
  /\ UNCHANGED <<dashboard_vars, other_than_runner>>

\* the steps of the loop's own thread
LoopStep ==
  \/ compare_cycle_begin
  \/ compare_cycle_end
  \/ loop_sleep
  \/ poll_get_latest_files
  \/ poll_branch_zmdesnr
  \/ poll_branch_vl06o
  \/ callback_end

NextLoops ==
  \/ start_loop
  \/ new_file_for_poll
  \/ LoopStep

\* the loops under a scheduler that does not leave a thread that can run
\* waiting forever
SpecLoops == Init /\ [][NextLoops]_vars /\ WF_vars(LoopStep)

\* ------------------------------------------------------------------------
\* Properties of log_updates.py (SpecLog)
\* ------------------------------------------------------------------------

\* the number of "updated" items of a list of deltas that set serial to SHP
RECURSIVE ShippedUpdates(_, _)
ShippedUpdates(deltas, serial) ==
  IF deltas = <<>> THEN 0
  ELSE Cardinality({j \in 1..Len(deltas[1].updated) :
                      /\ deltas[1].updated[j].serial = serial
                      /\ deltas[1].updated[j].record.status = "SHP"})
       + ShippedUpdates(Tail(deltas), serial)

\* C1: for every serial, the deltas of master_history hold at most one updated
\* record with status SHP, also after process_delta_directory ran more than once
\* over the same changes directory. Stated for changes directories whose delta
\* files themselves hold at most one such record for the serial.
C1_AtMostOneShippedUpdate ==
  \A s \in Serials :
    ShippedUpdates(changes_dir, s) <= 1 => ShippedUpdates(master_history_json.deltas, s) <= 1

\* materializing a list of deltas, in order, onto a current status
RECURSIVE Replay(_, _)
Replay(deltas, current_status) ==
  IF deltas = <<>> THEN current_status
  ELSE Replay(Tail(deltas), generate_current_status(deltas[1], current_status))

Exposed(output) == extract_current_status(output.data)

\* the changes of the last comparison that are about serial
ChangesOf(serial) == SelectSeq(last_compare.changes, LAMBDA c : c.serial = serial)

\* no serial has two rows in the snapshot
UniqueSerials(df) == \A i, j \in 1..Len(df) : df[i].serial = df[j].serial => i = j

\* C2: once a serial's entry of the current-state table read from output.json
\* has status SHP, a later cycle (here: one comparing two snapshots in which no
\* serial is repeated) leaves the entry present with status SHP.
C2_TerminalMonotonicity ==
  [][(/\ last_compare'.returned
      /\ entries' = entries
      /\ \A i \in 1..Len(entries) : UniqueSerials(entries[i].rows))
     => \A s \in Serials :
          (s \in DOMAIN Exposed(output_json) /\ Exposed(output_json)[s].status = "SHP")
          => (s \in DOMAIN Exposed(output_json') /\ Exposed(output_json')[s].status = "SHP")]_vars

C9_IdenticalSnapshotsChangeNothing ==
  [][(/\ Len(entries) = 2
      /\ entries[1].readable
      /\ entries[1] = entries[2]
      /\ UniqueSerials(entries[1].rows)
      /\ entries' = entries
      /\ last_compare'.returned)
     => /\ last_compare'.changes = <<>>
        /\ Len(master_history_json'.deltas) = Len(master_history_json.deltas)
        /\ Exposed(output_json') = Exposed(output_json)]_vars

\* C10: for a serial present in both snapshots every record emitted has
\* different from and to statuses, and when the serial's status is the same in
\* both snapshots no record is emitted, whatever its other columns are.
C10_OnlyStatusChangesEmitted ==
  last_compare.returned =>
    \A s \in Serials :
      (StatusesIn(last_compare.path1, s) # {} /\ StatusesIn(last_compare.path2, s) # {})
      => /\ \A i \in 1..Len(ChangesOf(s)) : ChangesOf(s)[i].from # ChangesOf(s)[i].to
         /\ (/\ Cardinality(StatusesIn(last_compare.path1, s)) = 1
             /\ StatusesIn(last_compare.path1, s) = StatusesIn(last_compare.path2, s))
            => ChangesOf(s) = <<>>

\* C10 witness: a serial was compared whose status is the same in both snapshots
\* while its delivery, customer, shipment and user differ
C10_Witness ==
  /\ last_compare.returned
  /\ \E i \in 1..Len(last_compare.path1), j \in 1..Len(last_compare.path2) :
       LET old == last_compare.path1[i]
           new == last_compare.path2[j]
       IN  /\ old.serial = new.serial /\ old.status = new.status
           /\ old.delivery # new.delivery /\ old.customer_name # new.customer_name
           /\ old.shipment_number # new.shipment_number /\ old.created_by # new.created_by
           /\ Len(RowsOf(last_compare.path1, old.serial)) = 1
           /\ Len(RowsOf(last_compare.path2, old.serial)) = 1
           /\ Len(last_compare.changes) > 0

\* ------------------------------------------------------------------------
\* Properties of the filtering steps (SpecReconcile)
\* ------------------------------------------------------------------------

\* the timestamps of the SHP rows serial has in a frame
ShippedTimes(df, serial) ==
  {df[i].timestamp : i \in {j \in 1..Len(df) : df[j].serial = serial /\ df[j].status = "SHP"}}

\* the number of rows of a frame equal to row in the columns of row
CountRows(df, row) ==
  Cardinality({i \in 1..Len(df) : \A c \in DOMAIN row : df[i][c] = row[c]})

\* every row serial has in the latest export passes the time window of the cycle
InWindow(serial) ==
  \/ ~serial_file.reference_time.found
  \/ \A i \in 1..Len(serial_file.df) :
       serial_file.df[i].serial = serial
         => serial_file.df[i].timestamp >= serial_file.reference_time.time - WINDOW_MINUTES

C11_OneCycleAtATime ==
  ~(pc.scheduler = "cycle" /\ pc.request = "cycle")

\* C19: a scheduler starts an attempt after the first only when it has slept
\* the configured interval since its last attempt ended, also after an attempt
\* that failed or was skipped for want of two snapshot files.
C19_WaitsBetweenAttempts ==
  [][(attempts' = attempts + 1 /\ attempts > 0) => waited >= UPDATE_INTERVAL]_vars

\* ------------------------------------------------------------------------
\* Properties of the dashboard backend (SpecDashboard)
\* ------------------------------------------------------------------------

\* C12: what health_check answers was read from one complete state of the
\* cache, the one before or the one after a cycle of process_files: its
\* last_update and has_data are those of the cache at the end of some cycle.
C12_ConsistentReads ==
  response.fn = "health_check" =>
    \E c \in committed :
      /\ c.last_update_time = response.last_update
      /\ (c.dashboard_data # NoData) = response.has_data

\* C20: when the callback for the latest ZMDESNR file failed and that file is
\* still the latest, the next poll of poll_for_new_files processes it again.
C20_FailedFileIsRetried ==
  [][(/\ pc_watch = "poll"
      /\ pc_watch' = "vl06o"
      /\ last_outcome.zmdesnr = "failed"
      /\ latest.zmdesnr = last_processed.zmdesnr
      /\ cycle < MaxCycles)
     => cycle' = cycle + 1]_vars

\* ------------------------------------------------------------------------
\* Properties of log_updates.py under failures (SpecLogFaults)
\* ------------------------------------------------------------------------

\* C13: a call of append_to_master_history on a readable master history leaves
\* a readable master history that holds every delta it held before, followed
\* by the whole new delta or by nothing.
C13_AppendAllOrNothing ==
  [][(log_pc = "append" /\ log_pc' # "append" /\ master_history_readable) =>
       /\ master_history_readable'
       /\ \/ master_history_json'.deltas = master_history_json.deltas
          \/ master_history_json'.deltas =
               Append(master_history_json.deltas, changes_dir[delta_index])]_vars

\* C14: when the handling of a delta file has ended, the delta was appended to
\* master_history exactly if current_status was updated with it.
C14_CycleIsTransactional ==
  log_pc = "idle" => handled.appended = handled.applied

\* ------------------------------------------------------------------------
\* Properties of compare.py: integrity of the diff (SpecCompare)
\* ------------------------------------------------------------------------

\* the serials with status SHP in the previous snapshot and another status in
\* the new one (no serial repeated in either)
ShippedRegressions(previous_file, newest_file) ==
  {s \in Serials : /\ StatusesIn(previous_file, s) = {"SHP"}
                   /\ StatusesIn(newest_file, s) # {}
                   /\ StatusesIn(newest_file, s) # {"SHP"}}

\* C15: a cycle whose diff finds a serial going from SHP to another status
\* aborts: it emits no change record and leaves output.json, and with it the
\* current-state table, as it was before the cycle.
C15_ShippedRegressionAborts ==
  [][(/\ last_compare'.returned
      /\ entries' = entries
      /\ \A i \in 1..Len(entries) : UniqueSerials(entries[i].rows)
      /\ ShippedRegressions(last_compare'.path1, last_compare'.path2) # {})
     => /\ last_compare'.changes = <<>>
        /\ output_json' = output_json]_vars

\* ------------------------------------------------------------------------
\* Properties of the progress metrics (SpecProgress)
\* ------------------------------------------------------------------------

\* C16: the progress_percentage of every delivery group produced by
\* process_snapshot and by calculate_progress_metrics is a number from 0 to 100.
C16_ProgressClamp ==
  /\ \A row \in agg :
       0 <= row.progress_percentage /\ row.progress_percentage <= 10000
  /\ \A row \in progress_df :
       /\ row.progress_percentage.kind = "number"
       /\ 0 <= row.progress_percentage.hundredths
       /\ row.progress_percentage.hundredths <= 10000

\* the serials of the delivery with status PICKED or SHIPPED
ScannedCount(in) == Len(SelectSeq(in.rows, IsScanned))

\* C17: when more serials of the delivery are PICKED or SHIPPED than the
\* delivery expects (expected > 0), every group of the delivery in the result
\* has progress_percentage 100 and carries scanned_exceeds_expected = true.
C17_ExcessIsFlagged ==
  \A row \in agg :
    (/\ ~progress_input.delivery.packages.isna
     /\ progress_input.delivery.packages.value > 0
     /\ ScannedCount(progress_input) > progress_input.delivery.packages.value)
    => /\ row.progress_percentage = 10000
       /\ "scanned_exceeds_expected" \in DOMAIN row
       /\ row.scanned_exceeds_expected

\* the expected count of the group is missing or not greater than 0
NoExpectedCount(row) ==
  row.delivery_total_packages.isna \/ row.delivery_total_packages.value <= 0

\* C18, as claimed: the progress_percentage of a group whose expected count is
\* missing or not greater than 0 is 0, whatever the statuses of its serials.
C18_ZeroWithoutExpectedCount ==
  \A row \in agg : NoExpectedCount(row) => row.progress_percentage = 0

\* C18, amended: the progress_percentage of a group whose expected count is
\* missing or not greater than 0 is 0, except that it is 100 for a group with
\* SHIPPED serials and no PICKED serial, and that for a group of a delivery whose
\* expected count is present and whose scanned quantity exceeds its delivery
\* quantity it is the share of the PICKED and SHIPPED quantity in the delivery's
\* scanned quantity.
C18_ZeroUnlessShippedOrFlagged ==
  \A row \in agg :
    NoExpectedCount(row) =>
      row.progress_percentage =
        IF row.shipped_count > 0 /\ row.assigned_to_shipper_count = 0 THEN 10000
        ELSE IF /\ ~row.delivery_total_packages.isna
                /\ ScannedExceedsExpected(progress_input)
             THEN Min100(Percentage(SumQty(SelectSeq(progress_input.rows, IsScanned)),
                                    SumQty(progress_input.rows)))
             ELSE 0

\* C18 witness: a group without expected count whose serials are all SHIPPED
\* came out at 100, next to a group of the same delivery that came out at 0
C18_Witness ==
  /\ \E row \in agg :
       /\ NoExpectedCount(row)
       /\ row.shipped_count > 0 /\ row.assigned_to_shipper_count = 0
       /\ row.progress_percentage = 10000
  /\ \E row \in agg :
       /\ NoExpectedCount(row)
       /\ row.assigned_to_shipper_count > 0
       /\ row.progress_percentage = 0

\* ------------------------------------------------------------------------
\* Properties of the cycles after a shipment (SpecReconcile)
\* ------------------------------------------------------------------------

\* the rows of the latest export that have status ASH, belong to a serial the
\* cycle before left with a SHP row, and were made before that SHP row
LateRecords ==
  {i \in 1..Len(serial_file.df) :
     /\ serial_file.df[i].status = "ASH"
     /\ ShippedTimes(previous_df_serial, serial_file.df[i].serial) # {}
     /\ serial_file.df[i].timestamp
          < Max(ShippedTimes(previous_df_serial, serial_file.df[i].serial))}

\* C21: when a cycle has left a serial with status SHP at time T, an ASH record
\* of that serial made before T and fed into the next cycle is discarded: the
\* frame of the next cycle holds no ASH row of the serial, so that the serial
\* is not taken from SHP back to ASH.
C21_LateRecordDiscarded ==
  processed
    => \A i \in LateRecords : "ASH" \notin StatusesIn(df_serial, serial_file.df[i].serial)

\* ------------------------------------------------------------------------
\* Properties of compare.py: determinism of the diff (SpecCompare)
\* ------------------------------------------------------------------------

\* the records of a list of changes without their timestamp field
WithoutTimestamp(changes) ==
  [i \in 1..Len(changes) |->
     [c \in DOMAIN changes[i] \ {"timestamp"} |-> changes[i][c]]]

ReadAccessors == SectionReaders \cup {"get_dashboard_data", "get_real_time_updates"}

\* a step of one of the read accessors: it answers, and neither process_files,
\* the watcher, health_check nor the directories move
ReadStep ==
  /\ response'.fn \in ReadAccessors
  /\ UNCHANGED <<latest, cycle, pf_pc, pc_watch, hc>>

\* C23: a read accessor (get_dashboard_data, get_user_activity,
\* get_delivery_progress, get_scan_times, get_real_time_updates) leaves the
\* content of the dashboard cache as it was before the read.
C23_ReadsLeaveCacheUnchanged ==
  [][ReadStep => cache' = cache]_vars

\* ------------------------------------------------------------------------
\* Properties of compare.py: removals (SpecCompare)
\* ------------------------------------------------------------------------

\* C24: a serial that the previous snapshot holds with a status other than ASH
\* and that the new snapshot does not hold is emitted as a removal (change_type
\* "removed"), and has no entry in the current-state table after the cycle.
C24_RemovalIsFlaggedAndApplied ==
  last_compare.returned =>
    \A s \in Serials :
      (/\ StatusesIn(last_compare.path1, s) # {}
       /\ "ASH" \notin StatusesIn(last_compare.path1, s)
       /\ StatusesIn(last_compare.path2, s) = {})
      => /\ ChangesOf(s) # <<>>
         /\ \A i \in 1..Len(ChangesOf(s)) : ChangesOf(s)[i].change_type = "removed"
         /\ s \notin DOMAIN Exposed(output_json)

\* ------------------------------------------------------------------------
\* Properties of compare.py: persistence of the current-state table (SpecCompare)
\* ------------------------------------------------------------------------

\* C25: a cycle of process_directory that emits no record for a serial leaves
\* the serial's entry of the current-state table read from output.json present
\* and unchanged.
C25_EntryStaysWithoutChange ==
  [][last_compare'.returned
     => \A s \in DOMAIN Exposed(output_json) :
          (\A i \in 1..Len(last_compare'.changes) : last_compare'.changes[i].serial # s)
            => /\ s \in DOMAIN Exposed(output_json')
               /\ Exposed(output_json')[s] = Exposed(output_json)[s]]_vars

\* ------------------------------------------------------------------------
\* Properties of the order of the filtering steps (SpecFilter)
\* ------------------------------------------------------------------------

\* the records of a frame: its rows in the columns of the export
Records(df) ==
  {[serial |-> df[i].serial, status |-> df[i].status, timestamp |-> df[i].timestamp,
    created_by |-> df[i].created_by] : i \in 1..Len(df)}

\* the frames the four rules give when applied in the stated order: status
\* collapse, SHP ceiling, time window, then one row per serial, the latest
RulesInStatedOrder(df, reference_time) ==
  LET collapsed == process_ash_shp_statuses(df).df
      ceiled    == apply_shp_ceiling_timestamp(collapsed)
      windowed  == IF reference_time.found
                   THEN filter_by_time_window(ceiled, reference_time.time, WINDOW_MINUTES)
                   ELSE ceiled
  IN  {drop_duplicates(sorted, {"serial"}) : sorted \in SortValuesDescending(windowed)}

\* C26: the records that survive the filtering of process_snapshot are those
\* that survive the four rules applied to the export in the stated order:
\* status collapse, SHP ceiling, time window, key uniqueness.
C26_FilteringIsRulesInOrder ==
  processed
    => \E expected \in RulesInStatedOrder(serial_file.df, serial_file.reference_time) :
         Records(df_serial) = Records(expected)

\* ------------------------------------------------------------------------
\* Properties of log_updates.py: the Materializer and the history (SpecLog)
\* ------------------------------------------------------------------------

\* the last delta of a history that has one
LastDelta(history) == history.deltas[Len(history.deltas)]

\* C27: applying with generate_current_status the delta that was applied last
\* once more leaves the records table and its record_count as they were after
\* the first application, whatever the table was before and whatever the delta.
C27_MaterializerIsIdempotent ==
  [][(/\ master_history_json.deltas # <<>>
      /\ master_history_json'.deltas
           = Append(master_history_json.deltas, LastDelta(master_history_json)))
     => current_status_json' = current_status_json]_vars

\* C27 witness: a delta that adds, updates or removes serials was applied twice
\* in a row after another delta, and the table is not empty.
C27_Witness ==
  /\ Len(master_history_json.deltas) >= 3
  /\ LET n == Len(master_history_json.deltas)
     IN  /\ master_history_json.deltas[n] = master_history_json.deltas[n - 1]
         /\ master_history_json.deltas[n] # master_history_json.deltas[1]
         /\ master_history_json.deltas[n].added # <<>>
         /\ master_history_json.deltas[n].removed # <<>>
  /\ current_status_json.records # EmptyDict

\* added_count + removed_count + updated_count, summed over the deltas
TotalChanges(deltas) ==
  LET total[i \in 0..Len(deltas)] ==
        IF i = 0 THEN 0
        ELSE total[i - 1] + deltas[i].metadata.added_count
             + deltas[i].metadata.removed_count + deltas[i].metadata.updated_count
  IN  total[Len(deltas)]

C29_NoLostUpdate ==
  (pf_pc = "idle" /\ track.pc = "idle" /\ cache.previous_dashboard_data # NoData)
    => /\ SameDict(cache.dashboard_data, cache.previous_dashboard_data)
       /\ cache.dashboard_data.users = cache.dashboard_data.id

\* ------------------------------------------------------------------------
\* Properties of the loops (SpecLoops)
\* ------------------------------------------------------------------------

\* the loop starts a pass: a comparison is called, or the poll looks for new
\* files to hand to its callback
NextPass == runner.pc \in {"cycle", "zmdesnr"}

\* C30: after a cycle that raised an exception the loop eventually starts its
\* next pass, in scheduled_execution, in run_scheduled_compare and in
\* poll_for_new_files with either callback.
C30_LoopSurvivesFailure ==
  (runner.outcome = "raised" /\ ~NextPass) ~> NextPass

====
